---- MODULE Spec2Model ----
(***************************************************************************)
(* Model of create-social-card (src/src/lib.rs): colour parsing            *)
(* (parse_color, TryFrom<&Color> for Pixel), the font-size search of       *)
(* fit_glyphs, the per-block pipeline of overlay_text and the drawing of   *)
(* glyph pixels into a block's layers.                                     *)
(*                                                                         *)
(* Strings are sequences of one-character strings.  Lengths and indexes    *)
(* of Rust strings are BYTE lengths and byte offsets, so every character   *)
(* carries its UTF-8 length (Utf8Len).                                     *)
(*                                                                         *)
(* Geometry is exact rational arithmetic in sixths of a pixel (Sub ==      *)
(* 6): the f32 rounding of the code is not modelled.                       *)
(***************************************************************************)
EXTENDS Integers, Sequences, FiniteSets, TLC

VARIABLES
    colorPc,          \* colour machine: "build" | "parsed"
    colorStr,         \* the &str handed to parse_color
    colorRes,         \* Result<Pixel> of Pixel::try_from(&Color::RgbString(colorStr))
    pc,               \* overlay_text: position inside the per-block loop body
    overflow_checks,  \* build profile: TRUE = arithmetic overflow panics (debug)
    todo,             \* blocks of options.blocks not yet reached by the for loop
    idx,              \* index of the current block in options.blocks (0-based)
    block,            \* the current block (options.blocks[idx])
    rect,             \* the working rect (`let mut rect = block.rect.clone()`)
    fit,              \* the outcome of fit_glyphs for the current block
    events,           \* log of what overlay_text did, in program order
    result,           \* outcome of the call: "running" | "Ok" | an error kind | "Panic"
    drawPc,           \* glyph drawing: "layers" | "draw" | "panic" | "idle"
    drawBlock,        \* the block whose glyphs are drawn (its colours, border, shadow)
    text_image,       \* the decoration/text layer: [<<x, y>> -> Pixel]
    shadow_image,     \* the text-shadow layer, <<>> when the block has no shadow
    drawn,            \* the last call of the closure handed to g.draw
    draws             \* closure calls still to come

vars == <<colorPc, colorStr, colorRes, pc, overflow_checks, todo, idx, block,
          rect, fit, events, result, drawPc, drawBlock, text_image, shadow_image,
          drawn, draws>>

colorVars == <<colorPc, colorStr, colorRes>>
overlayVars == <<pc, overflow_checks, todo, idx, block, rect, fit, events, result>>
drawVars == <<drawPc, drawBlock, text_image, shadow_image, drawn, draws>>

Last(s) == s[Len(s)]

(***************************************************************************)
(* Colours                                                                 *)
(***************************************************************************)

pixel(red, green, blue, alpha) == <<red, green, blue, alpha>>

Ok(v) == [ok |-> TRUE, val |-> v, err |-> "none"]
Err(e) == [ok |-> FALSE, val |-> <<>>, err |-> e]

HexChars == {"0", "1", "2", "3", "4", "5", "6", "7", "8", "9",
             "a", "b", "c", "d", "e", "f", "A", "B", "C", "D", "E", "F"}

\* char::to_digit(16)
HexVal(c) ==
    CASE c = "0" -> 0 [] c = "1" -> 1 [] c = "2" -> 2 [] c = "3" -> 3
      [] c = "4" -> 4 [] c = "5" -> 5 [] c = "6" -> 6 [] c = "7" -> 7
      [] c = "8" -> 8 [] c = "9" -> 9
      [] c \in {"a", "A"} -> 10 [] c \in {"b", "B"} -> 11
      [] c \in {"c", "C"} -> 12 [] c \in {"d", "D"} -> 13
      [] c \in {"e", "E"} -> 14 [] c \in {"f", "F"} -> 15

RECURSIVE StripZeros(_)
StripZeros(s) ==
    IF s # <<>> /\ s[1] = "0" THEN StripZeros(Tail(s)) ELSE s

\* a u32 as its four bytes <<b3, b2, b1, b0>>, most significant first, from at
\* most 8 hex digits
U32OfDigits(d) ==
    LET n == Len(d)
        nib(i) == IF i > n THEN 0 ELSE HexVal(d[n - i + 1])   \* i-th nibble from the right
        byte(k) == nib(2 * k + 2) * 16 + nib(2 * k + 1)       \* k-th byte from the right
    IN  <<byte(3), byte(2), byte(1), byte(0)>>

\* u32::from_str_radix(src, 16): an empty string, a lone sign, a '-' (u32 is
\* unsigned), any non-digit and a value that does not fit in 32 bits are errors;
\* ONE leading '+' is accepted and skipped.
from_str_radix(src) ==
    IF src = <<>> THEN Err("ParseIntError")
    ELSE IF Len(src) = 1 /\ src[1] \in {"+", "-"} THEN Err("ParseIntError")
    ELSE LET digits == IF src[1] = "+" THEN Tail(src) ELSE src
         IN  IF \E i \in 1..Len(digits) : digits[i] \notin HexChars
             THEN Err("ParseIntError")
             ELSE IF Len(StripZeros(digits)) > 8 THEN Err("ParseIntError")
             ELSE Ok(U32OfDigits(StripZeros(digits)))

parse_color(color) ==
    LET hex == IF Len(color) > 0 /\ color[1] = "#" THEN Tail(color) ELSE color
        parsed == from_str_radix(color)
    IN  IF ~parsed.ok THEN Err("ColorParseError")
        ELSE LET v == parsed.val
                 \* alpha = (color & 0xFF) as u8; color = color >> 8
                 alpha == IF Len(hex) = 8 THEN v[4] ELSE 255
                 c == IF Len(hex) = 8 THEN <<0, v[1], v[2], v[3]>> ELSE v
             IN  IF Len(hex) = 6 \/ Len(hex) = 8
                 \* red = (color >> 16) & 0xFF, green = (color >> 8) & 0xFF, blue = color & 0xFF
                 THEN Ok(pixel(c[2], c[3], c[4], alpha))
                 ELSE Err("ColorParseError")

\* enum Color { Rgb, Rgba, RgbString }
Rgb(r, g, b) == [kind |-> "Rgb", px |-> <<r, g, b, 255>>, s |-> <<>>]
Rgba(r, g, b, a) == [kind |-> "Rgba", px |-> <<r, g, b, a>>, s |-> <<>>]
RgbString(s) == [kind |-> "RgbString", px |-> <<0, 0, 0, 0>>, s |-> s]

\* impl TryFrom<&Color> for Pixel
PixelTryFrom(val) ==
    CASE val.kind = "Rgb" -> Ok(pixel(val.px[1], val.px[2], val.px[3], 255))
      [] val.kind = "Rgba" -> Ok(pixel(val.px[1], val.px[2], val.px[3], val.px[4]))
      [] val.kind = "RgbString" -> parse_color(val.s)

(***************************************************************************)
(* Text, fonts and the layout library                                      *)
(*                                                                         *)
(* The model alphabet: "a" and "b" are one-byte letters, "U+00E9" is the   *)
(* letter e-acute (two bytes in UTF-8), " " is a space (a soft line-break  *)
(* opportunity follows it) and                                             *)
(* "\n" is a newline (a control character: it has no glyph, and a hard     *)
(* line break follows it).                                                 *)
(***************************************************************************)

Utf8Len(c) == IF c = "U+00E9" THEN 2 ELSE 1
IsControl(c) == c = "\n"
IsWhitespace(c) == c = " "

RECURSIVE SumSeq(_)
SumSeq(s) == IF s = <<>> THEN 0 ELSE s[1] + SumSeq(Tail(s))

RECURSIVE Concat(_)
Concat(ss) == IF ss = <<>> THEN <<>> ELSE ss[1] \o Concat(Tail(ss))

\* str::len(): the length in bytes
StrLen(text) == SumSeq([i \in 1..Len(text) |-> Utf8Len(text[i])])

\* the byte offset of the i-th character (str::char_indices), 0-based
ByteIndex(text, i) == StrLen(SubSeq(text, 1, i - 1))

\* str::trim_matches('\n')
RECURSIVE TrimStart(_)
TrimStart(t) == IF t # <<>> /\ t[1] = "\n" THEN TrimStart(Tail(t)) ELSE t
RECURSIVE TrimEnd(_)
TrimEnd(t) == IF t # <<>> /\ Last(t) = "\n" THEN TrimEnd(SubSeq(t, 1, Len(t) - 1)) ELSE t
trim_matches(t) == TrimEnd(TrimStart(t))

\* The fonts of the catalog (options.fonts), in font units.  ab_glyph: a PxScale
\* is the pixel height of ascent - descent, so a metric m scales to
\* m * scale / height_unscaled.
Fonts == <<
    [name |-> "Sans",  units_per_em |-> 8, height_unscaled |-> 8,
     ascent_unscaled |-> 6, h_advance_unscaled |-> 4],
    [name |-> "Tall", units_per_em |-> 8, height_unscaled |-> 12,
     ascent_unscaled |-> 9, h_advance_unscaled |-> 6] >>

\* fonts.iter().position(|f| f.name == name): the 1-based index, 0 for None
FontPosition(name) ==
    IF \E i \in 1..Len(Fonts) : Fonts[i].name = name
    THEN CHOOSE i \in 1..Len(Fonts) :
             /\ Fonts[i].name = name
             /\ \A j \in 1..(i - 1) : Fonts[j].name # name
    ELSE 0

\* pt_size_to_px_scale(font, pt_size, 1.0), in sixths of a pixel:
\* 6 * (pt_size * 96/72) * height / units_per_em
pt_size_to_px_scale(font, pt_size) ==
    (8 * pt_size * font.height_unscaled) \div font.units_per_em

\* a font metric at a pixel scale (sixths of a pixel)
Scaled(font, metric, scale) == (metric * scale) \div font.height_unscaled

\* u32 -> f32 of a pixel coordinate, in sixths of a pixel
AsF32(px) == 6 * px

\* glyph_brush_layout Characters: the characters of all sections in order, each
\* with its section, byte index, advance and vertical metrics at the section's
\* scale.  sections: sequence of [text, font_id, scale].
SectionChars(sections, k) ==
    LET sec == sections[k]
        font == Fonts[sec.font_id]
    IN  [i \in 1..Len(sec.text) |->
            [section_index |-> k - 1,
             byte_index |-> ByteIndex(sec.text, i),
             ch |-> sec.text[i],
             font_id |-> sec.font_id,
             scale |-> sec.scale,
             advance |-> Scaled(font, font.h_advance_unscaled, sec.scale),
             ascent |-> Scaled(font, font.ascent_unscaled, sec.scale),
             height |-> sec.scale]]

Characters(sections) == Concat([k \in 1..Len(sections) |-> SectionChars(sections, k)])

\* glyph_brush_layout Words: a word ends after a character that is followed by
\* a line break (soft after a space, hard after a newline) or at the end.
RECURSIVE WordsFrom(_, _)
WordsFrom(chars, cur) ==
    IF chars = <<>> THEN (IF cur = <<>> THEN <<>> ELSE <<cur>>)
    ELSE LET c == chars[1]
         IN  IF IsControl(c.ch) \/ IsWhitespace(c.ch)
             THEN <<Append(cur, c)>> \o WordsFrom(Tail(chars), <<>>)
             ELSE WordsFrom(Tail(chars), Append(cur, c))

WordGlyphs(word) == SelectSeq(word, LAMBDA c : ~IsControl(c.ch))
WordWidth(word) == SumSeq([i \in 1..Len(word) |->
                              IF IsControl(word[i].ch) THEN 0 ELSE word[i].advance])
\* layout_width_no_trail: the width without trailing whitespace
WordWidthNoTrail(word) ==
    SumSeq([i \in 1..Len(word) |->
               IF IsControl(word[i].ch) \/ IsWhitespace(word[i].ch) THEN 0
               ELSE word[i].advance])
WordHardBreak(word) == IsControl(Last(word).ch)

\* glyph_brush_layout Lines: greedy wrapping at width_bound.  The first word
\* of a line is placed even when it overlaps the bound; a hard break ends
\* the line.  A line is a sequence of words.
RECURSIVE LinesFrom(_, _, _, _)
LinesFrom(words, width_bound, line, caret) ==
    IF words = <<>> THEN (IF line = <<>> THEN <<>> ELSE <<line>>)
    ELSE LET w == words[1]
             word_in_bounds == caret + WordWidthNoTrail(w) <= width_bound
         IN  IF ~word_in_bounds /\ line # <<>>
             THEN <<line>> \o LinesFrom(words, width_bound, <<>>, 0)
             ELSE IF WordHardBreak(w)
             THEN <<Append(line, w)>> \o LinesFrom(Tail(words), width_bound, <<>>, 0)
             ELSE LinesFrom(Tail(words), width_bound, Append(line, w), caret + WordWidth(w))

MaxOf(S) == CHOOSE x \in S : \A y \in S : y <= x

LineChars(line) == Concat(line)
LineAscent(line) == MaxOf({LineChars(line)[i].ascent : i \in 1..Len(LineChars(line))})
LineHeight(line) == MaxOf({LineChars(line)[i].height : i \in 1..Len(LineChars(line))})

\* Line::aligned_on_screen: the glyphs of a line, their baseline at
\* caret_y + ascent
LineGlyphs(line, caret_y) ==
    LET gs == SelectSeq(LineChars(line), LAMBDA c : ~IsControl(c.ch))
    IN  [i \in 1..Len(gs) |->
            [section_index |-> gs[i].section_index,
             byte_index |-> gs[i].byte_index,
             font_id |-> gs[i].font_id,
             scale |-> gs[i].scale,
             y |-> caret_y + LineAscent(line)]]

\* Layout::Wrap with VerticalAlign::Top: lines are emitted from the top of the
\* bounds while the caret is above their bottom
RECURSIVE EmitLines(_, _, _)
EmitLines(lines, caret_y, bottom) ==
    IF lines = <<>> \/ caret_y >= bottom THEN <<>>
    ELSE LineGlyphs(lines[1], caret_y)
             \o EmitLines(Tail(lines), caret_y + LineHeight(lines[1]), bottom)

\* Layout::calculate_glyphs(fonts, geometry, sections)
\* geometry: [screen_y, bound_w, bound_h] in sixths of a pixel
calculate_glyphs(wrap, geometry, sections) ==
    LET lines == LinesFrom(WordsFrom(Characters(sections), <<>>), geometry.bound_w, <<>>, 0)
    IN  IF wrap
        THEN EmitLines(lines, geometry.screen_y, geometry.screen_y + geometry.bound_h)
        ELSE IF lines = <<>> THEN <<>> ELSE LineGlyphs(lines[1], geometry.screen_y)

(***************************************************************************)
(* u32 arithmetic.  A u32 is held as its two's-complement bit pattern: the *)
(* values from 2^31 up are the negative integers, so a wrapped difference  *)
(* a - b of small numbers is simply the negative number a - b.             *)
(***************************************************************************)

\* unsigned a < b
ULt(a, b) == IF (a < 0) = (b < 0) THEN a < b ELSE b < 0
wrapping_sub(a, b) == a - b
\* `a - b` overflows (panics with overflow checks, wraps without)
SubOverflows(a, b) == ULt(a, b)
wrapping_add(a, b) == a + b
AddOverflows(a, b) == ULt(wrapping_add(a, b), a)

\* `x as f32` for a u32, in sixths of a pixel; a wrapped value (about 2^32)
\* exceeds every other magnitude of the model
U32AsF32(x) == IF x < 0 THEN 1073741823 ELSE AsF32(x)

(***************************************************************************)
(* fit_glyphs                                                              *)
(***************************************************************************)

NoColor == [kind |-> "None", px |-> <<0, 0, 0, 0>>, s |-> <<>>]

FitOk(font_size, lines) == [kind |-> "Ok", err |-> "none", font_size |-> font_size, lines |-> lines]
FitErr(e) == [kind |-> "Err", err |-> e, font_size |-> 0, lines |-> <<>>]
FitPanic(why) == [kind |-> "Panic", err |-> why, font_size |-> 0, lines |-> <<>>]

\* line_breaker.line_breaks(text), the hard breaks only: after every newline
\* and at the end of the text (UAX #14 LB3), as character offsets
HardBreaks(text) ==
    LET after == SelectSeq([i \in 1..Len(text) |-> i], LAMBDA i : text[i] = "\n")
    IN  IF text # <<>> /\ Last(text) = "\n" THEN after ELSE Append(after, Len(text))

\* the loop over the hard breaks of one run: acc = [lines, current_line, last_index]
RECURSIVE BreakLoop(_, _, _)
BreakLoop(run, breaks, acc) ==
    IF breaks = <<>> THEN acc
    ELSE LET offset == breaks[1]
             t == trim_matches(SubSeq(run.text, acc.last_index + 1, offset))
             cur == IF t # <<>>
                    THEN Append(acc.current_line, [run EXCEPT !.text = t])
                    ELSE acc.current_line
         IN  BreakLoop(run, Tail(breaks),
                       [lines |-> Append(acc.lines, cur),
                        current_line |-> <<>>,
                        last_index |-> offset])

\* the no-wrap segmentation of the runs into lines: acc = [lines, current_line]
RECURSIVE SplitRuns(_, _)
SplitRuns(runs, acc) ==
    IF runs = <<>> THEN acc
    ELSE LET run == runs[1]
             b == BreakLoop(run, HardBreaks(run.text),
                            [lines |-> acc.lines, current_line |-> acc.current_line,
                             last_index |-> 0])
             rest == trim_matches(SubSeq(run.text, b.last_index + 1, Len(run.text)))
             cur == IF b.last_index = 0 THEN Append(b.current_line, run)
                    ELSE IF b.last_index < Len(run.text) /\ rest # <<>>
                    THEN Append(b.current_line, [run EXCEPT !.text = rest])
                    ELSE b.current_line
         IN  SplitRuns(Tail(runs), [lines |-> b.lines, current_line |-> cur])

NoWrapLines(runs) ==
    LET r == SplitRuns(runs, [lines |-> <<>>, current_line |-> <<>>])
    IN  IF r.current_line # <<>> THEN Append(r.lines, r.current_line) ELSE r.lines

\* the first size search of the no-wrap branch: the height of all lines in the
\* first run's font
RECURSIVE HeightLoop(_, _, _, _, _)
HeightLoop(font_size, min_size, sizing_font, lines_len, text_height_f32) ==
    IF font_size >= min_size
       /\ pt_size_to_px_scale(sizing_font, font_size) * lines_len >= text_height_f32
    THEN HeightLoop(font_size - 4, min_size, sizing_font, lines_len, text_height_f32)
    ELSE font_size

\* the sections of a line, the scale of each from its own font
SectionsAt(line, font_size) ==
    [k \in 1..Len(line) |->
        [text |-> line[k].text,
         font_id |-> FontPosition(line[k].font),
         scale |-> pt_size_to_px_scale(Fonts[FontPosition(line[k].font)], font_size)]]

\* `fits` of one candidate size: "panic" when glyphs.last() is None
Fits(wrap, geometry, rect_bottom, line, last_section_byte_index, font_size) ==
    LET glyphs == calculate_glyphs(wrap, geometry, SectionsAt(line, font_size))
    IN  IF wrap
        THEN IF glyphs = <<>> THEN "panic"
             ELSE IF /\ Last(glyphs).section_index = Len(line) - 1
                     /\ Last(glyphs).byte_index = last_section_byte_index
                     /\ Last(glyphs).y < U32AsF32(rect_bottom)
                  THEN "yes" ELSE "no"
        ELSE IF Len(glyphs) = SumSeq([k \in 1..Len(line) |-> StrLen(line[k].text)])
             THEN "yes" ELSE "no"

\* `while font_size >= options.min_size { ... }` for one line
RECURSIVE SizeLoop(_, _, _, _, _, _, _)
SizeLoop(wrap, geometry, rect_bottom, line, last_byte, min_size, font_size) ==
    IF font_size < min_size THEN [panic |-> FALSE, font_size |-> font_size]
    ELSE LET f == Fits(wrap, geometry, rect_bottom, line, last_byte, font_size)
         IN  IF f = "panic" THEN [panic |-> TRUE, font_size |-> font_size]
             ELSE IF f = "yes" THEN [panic |-> FALSE, font_size |-> font_size]
             ELSE SizeLoop(wrap, geometry, rect_bottom, line, last_byte, min_size,
                           font_size - 4)

\* `for sections in line_sections`: font_size is shared by all the lines
RECURSIVE LinesLoop(_, _, _, _, _, _)
LinesLoop(wrap, geometry, rect_bottom, lines, min_size, font_size) ==
    IF lines = <<>> THEN [panic |-> FALSE, font_size |-> font_size]
    ELSE IF lines[1] = <<>>
    THEN LinesLoop(wrap, geometry, rect_bottom, Tail(lines), min_size, font_size)
    ELSE LET last_len == StrLen(Last(lines[1]).text)
         IN  IF SubOverflows(last_len, 1) /\ overflow_checks
             THEN [panic |-> TRUE, font_size |-> font_size]
             ELSE LET r == SizeLoop(wrap, geometry, rect_bottom, lines[1],
                                    wrapping_sub(last_len, 1), min_size, font_size)
                  IN  IF r.panic THEN r
                      ELSE LinesLoop(wrap, geometry, rect_bottom, Tail(lines), min_size,
                                     r.font_size)

\* the final pass: every section of every line at the scale of the first
\* section's font, every line shifted down by line_index * line_height
ResultGlyphs(wrap, geometry, lines, font_size) ==
    LET sizing_font == Fonts[FontPosition(lines[1][1].font)]
        line_height == pt_size_to_px_scale(sizing_font, font_size)
    IN  [n \in 1..Len(lines) |->
            LET sections == [k \in 1..Len(lines[n]) |->
                                [text |-> lines[n][k].text,
                                 font_id |-> FontPosition(lines[n][k].font),
                                 scale |-> line_height]]
                glyphs == calculate_glyphs(wrap, geometry, sections)
            IN  [texts |-> lines[n],
                 glyphs |-> [g \in 1..Len(glyphs) |->
                                [glyphs[g] EXCEPT !.y = @ + (n - 1) * line_height]]]]

\* fit_glyphs from `let mut line_sections` on
FitSections(wrap, geometry, rect_bottom, lines, min_size, font_size) ==
    IF \E n \in 1..Len(lines) : \E k \in 1..Len(lines[n]) : FontPosition(lines[n][k].font) = 0
    THEN FitErr("FontNotFound")
    ELSE LET r == LinesLoop(wrap, geometry, rect_bottom, lines, min_size, font_size)
         IN  IF r.panic THEN FitPanic("fit loop")
             ELSE IF r.font_size < min_size THEN FitErr("FitError")
             ELSE IF lines = <<>> \/ lines[1] = <<>> THEN FitPanic("line_sections[0][0]")
             ELSE FitOk(r.font_size, ResultGlyphs(wrap, geometry, lines, r.font_size))

\* SectionGeometry { screen_position: (left, top), bounds: (text_width, text_height) }
SectionGeometry(r) ==
    [screen_y |-> U32AsF32(r.top),
     bound_w |-> U32AsF32(wrapping_sub(r.right, r.left)),
     bound_h |-> U32AsF32(wrapping_sub(r.bottom, r.top))]

fit_glyphs(r, options) ==
    IF overflow_checks /\ (SubOverflows(r.right, r.left) \/ SubOverflows(r.bottom, r.top))
    THEN FitPanic("rect")
    ELSE LET text_height == wrapping_sub(r.bottom, r.top)
             geometry == SectionGeometry(r)
         IN  IF options.wrap
             THEN FitSections(TRUE, geometry, r.bottom, <<options.text>>,
                              options.min_size, options.max_size)
             ELSE LET lines == NoWrapLines(options.text)
                  IN  IF options.text = <<>> THEN FitPanic("options.text[0]")
                      ELSE IF FontPosition(options.text[1].font) = 0
                      THEN FitErr("FontNotFound")
                      ELSE LET font_size ==
                                   HeightLoop(options.max_size, options.min_size,
                                              Fonts[FontPosition(options.text[1].font)],
                                              Len(lines), U32AsF32(text_height))
                           IN  IF font_size < options.min_size THEN FitErr("FitError")
                               ELSE FitSections(FALSE, geometry, r.bottom, lines,
                                                options.min_size, font_size)

(***************************************************************************)
(* The colour machine: a string is built character by character and then   *)
(* converted.                                                              *)
(***************************************************************************)

MaxHexLen == 8

ColorPrefixes == {<<>>, <<"#">>, <<"+">>, <<"-">>, <<"#", "+">>}
ColorBodyChars == {"0", "8", "F", "g"}

\* the part of colorStr after its prefix
RECURSIVE StripPrefix(_)
StripPrefix(s) ==
    IF s # <<>> /\ s[1] \in {"#", "+", "-"} THEN StripPrefix(Tail(s)) ELSE s

ColorInit ==
    /\ colorPc = "build"
    /\ colorStr \in ColorPrefixes
    /\ colorRes = Err("none")

AppendChar ==
    /\ colorPc = "build"
    /\ Len(StripPrefix(colorStr)) < MaxHexLen
    /\ \E c \in ColorBodyChars : colorStr' = Append(colorStr, c)
    /\ UNCHANGED <<colorPc, colorRes>>
    /\ UNCHANGED <<overlayVars, drawVars>>

Convert ==
    /\ colorPc = "build"
    /\ colorRes' = PixelTryFrom(RgbString(colorStr))
    /\ colorPc' = "parsed"
    /\ UNCHANGED colorStr
    /\ UNCHANGED <<overlayVars, drawVars>>

(***************************************************************************)
(* overlay_text: the inputs                                                *)
(***************************************************************************)

ImageWidth == 40
ImageHeight == 40
MaxBlocks == 2

Rect(top, bottom, left, right) == [top |-> top, bottom |-> bottom, left |-> left, right |-> right]

NoShadow == [present |-> FALSE, x |-> 0, y |-> 0, blur |-> FALSE, color |-> NoColor]
Shadow(x, y, blur, color) == [present |-> TRUE, x |-> x, y |-> y, blur |-> blur, color |-> color]
NoBorder == [present |-> FALSE, width |-> 0, color |-> NoColor, shadow |-> NoShadow]
BlockBorder(width, color, shadow) ==
    [present |-> TRUE, width |-> width, color |-> color, shadow |-> shadow]
NoPadding == [present |-> FALSE, top |-> 0, bottom |-> 0, left |-> 0, right |-> 0]
Padding(top, bottom, left, right) ==
    [present |-> TRUE, top |-> top, bottom |-> bottom, left |-> left, right |-> right]

Text(font, text, color) == [font |-> font, text |-> text, color |-> color]

Red == RgbString(<<"F", "F", "0", "0", "0", "0">>)
BadColor == RgbString(<<"r", "e", "d">>)

Rects == {
    Rect(0, ImageHeight, 0, ImageWidth),           \* the whole image
    Rect(4, 20, 4, 36),                            \* 32 x 16
    Rect(4, 36, 4, 20),                            \* 16 x 32
    Rect(0, 8, 0, ImageWidth + 1),                 \* right of the image
    Rect(0, ImageHeight + 1, 0, 8),                \* below the image
    Rect(8, 20, 12, 12),                           \* left = right
    Rect(20, 8, 4, 36) }                           \* top > bottom

\* <<min_size, max_size>>
Sizes == { <<4, 12>>, <<6, 12>>, <<12, 12>>, <<12, 8>> }

Runs == {
    <<>>,
    << Text("Sans", <<"a", "b">>, NoColor) >>,
    << Text("Sans", <<"a", "b", " ", "a", "b">>, NoColor) >>,
    << Text("Sans", <<"a", "U+00E9">>, NoColor) >>,
    << Text("Sans", <<"a">>, NoColor), Text("Tall", <<"b">>, Rgb(0, 0, 255)) >>,
    << Text("Sans", <<"a", "b">>, NoColor), Text("Serif", <<"a">>, NoColor) >>,
    << Text("Serif", <<"a">>, NoColor) >>,
    << Text("Sans", <<"a">>, NoColor), Text("Serif", <<"\n">>, NoColor) >>,
    << Text("Sans", <<"\n", "a">>, NoColor) >>,
    << Text("Sans", <<"a", "\n", "a", "b", " ", "a", "b">>, NoColor) >>,
    << Text("Sans", <<>>, NoColor) >>,
    << Text("Sans", <<"a">>, BadColor) >> }

\* <<shadow, background, border, padding, v_align, color>>
Styles == {
    <<NoShadow, NoColor, NoBorder, NoPadding, "Top", Rgb(0, 0, 0)>>,
    <<Shadow(2, 2, FALSE, NoColor), NoColor, NoBorder, NoPadding, "Top", Red>>,
    <<Shadow(2, 2, TRUE, BadColor), NoColor, NoBorder, NoPadding, "Top", Red>>,
    <<NoShadow, Rgba(255, 255, 255, 128),
      BlockBorder(2, Red, Shadow(1, 1, TRUE, NoColor)), NoPadding, "Center", Red>>,
    <<Shadow(1, 1, FALSE, Red), Red,
      BlockBorder(1, Rgb(0, 0, 0), Shadow(1, 1, FALSE, Red)), Padding(1, 1, 1, 1), "Bottom",
      Rgb(0, 0, 0)>>,
    <<NoShadow, NoColor, BlockBorder(2, BadColor, NoShadow), NoPadding, "Top", Red>>,
    <<NoShadow, NoColor, BlockBorder(0, Red, Shadow(1, 1, FALSE, BadColor)), NoPadding, "Top",
      Red>>,
    <<NoShadow, BadColor, NoBorder, NoPadding, "Top", Red>>,
    <<NoShadow, NoColor, BlockBorder(ImageWidth + 4, Red, NoShadow), NoPadding, "Top", Red>>,
    <<NoShadow, NoColor, NoBorder, Padding(12, 12, 2, 2), "Top", Red>>,
    <<NoShadow, NoColor, NoBorder, NoPadding, "Top", BadColor>> }

Blocks ==
    { [min_size |-> sz[1], max_size |-> sz[2], text |-> t, rect |-> r,
       shadow |-> st[1], background |-> st[2], border |-> st[3], padding |-> st[4],
       wrap |-> w, v_align |-> st[5], color |-> st[6]] :
      sz \in Sizes, t \in Runs, r \in Rects, w \in BOOLEAN, st \in Styles }

NoBlock == [min_size |-> 0, max_size |-> 0, text |-> <<>>, rect |-> Rect(0, 0, 0, 0),
            shadow |-> NoShadow, background |-> NoColor, border |-> NoBorder,
            padding |-> NoPadding, wrap |-> TRUE, v_align |-> "Top", color |-> NoColor]

NoFit == [kind |-> "None", err |-> "none", font_size |-> 0, lines |-> <<>>]

(***************************************************************************)
(* overlay_text: the loop over options.blocks                              *)
(***************************************************************************)

Log(ev) == Append(events, [block |-> idx, ev |-> ev])

\* an error that is recorded while the loop goes on to the next block
FailAndGoOn(kind) ==
    /\ result' = kind
    /\ pc' = "loop"

\* return Err(..) / a panic: the call ends
Fail(kind) ==
    /\ result' = kind
    /\ pc' = "done"

OverlayInit ==
    /\ pc = "loop"
    /\ overflow_checks \in BOOLEAN
    /\ todo \in 0..MaxBlocks
    /\ idx = -1
    /\ block = NoBlock
    /\ rect = NoBlock.rect
    /\ fit = NoFit
    /\ events = <<>>
    /\ result = "running"

\* `for block in &options.blocks`, `let mut rect = block.rect.clone()`; after
\* the last block, Ok(bg)
NextBlock ==
    /\ pc = "loop"
    /\ todo > 0
    /\ \E b \in Blocks :
        /\ block' = b
        /\ rect' = b.rect
    /\ todo' = todo - 1
    /\ idx' = idx + 1
    /\ fit' = NoFit
    /\ pc' = "validate"
    /\ UNCHANGED <<drawVars, colorPc, colorStr, colorRes, overflow_checks, events, result>>

Return ==
    /\ pc = "loop"
    /\ todo = 0
    /\ result' = "Ok"
    /\ pc' = "done"
    /\ UNCHANGED <<drawVars, colorPc, colorStr, colorRes, overflow_checks, todo, idx, block, rect, fit, events>>

RectOutOfImage(r) ==
    r.left > ImageWidth \/ r.right > ImageWidth \/ r.top > ImageHeight \/ r.bottom > ImageHeight

\* a validation that lets an empty rect (left = right) through
RectNegativeStrict(r) == r.left > r.right \/ r.top > r.bottom

RectNegative(r) == r.left >= r.right \/ r.top > r.bottom

Validate ==
    /\ pc = "validate"
    /\ events' = Log("validate")
    /\ IF RectOutOfImage(rect) \/ RectNegative(rect)
       THEN Fail("GeometryError")
       ELSE pc' = "colors" /\ UNCHANGED result
    /\ UNCHANGED <<drawVars, colorPc, colorStr, colorRes, overflow_checks, todo, idx, block, rect, fit>>

\* Option<Color> -> Result<Option<Pixel>> (map(Pixel::try_from).transpose())
ColorFails(c) == c.kind # "None" /\ ~PixelTryFrom(c).ok

\* shadow_color, border_pixel, border_width
ResolveColors ==
    /\ pc = "colors"
    /\ IF (block.shadow.present /\ ColorFails(block.shadow.color))
          \/ (block.border.present /\ ColorFails(block.border.color))
       THEN Fail("ColorParseError")
       ELSE pc' = "border_shadow" /\ UNCHANGED result
    /\ UNCHANGED <<drawVars, colorPc, colorStr, colorRes, overflow_checks, todo, idx, block, rect, fit, events>>

\* `if let Some(s) = block.border...shadow`: the border's shadow layer is
\* built and composited onto bg
BorderShadow ==
    /\ pc = "border_shadow"
    /\ LET s == block.border.shadow
       IN  IF ~(block.border.present /\ s.present)
           THEN pc' = "layers" /\ UNCHANGED <<result, events>>
           ELSE IF ColorFails(s.color)
           THEN Fail("ColorParseError") /\ UNCHANGED events
           ELSE IF overflow_checks
                   /\ (\/ AddOverflows(rect.top, s.y) \/ AddOverflows(rect.bottom, s.y)
                       \/ AddOverflows(rect.left, s.x) \/ AddOverflows(rect.right, s.x))
           THEN Fail("Panic") /\ UNCHANGED events
           ELSE /\ events' = Log("border_shadow")
                /\ pc' = "layers"
                /\ UNCHANGED result
    /\ UNCHANGED <<drawVars, colorPc, colorStr, colorRes, overflow_checks, todo, idx, block, rect, fit>>

\* bg_pixel, border_left .. border_bottom, text_image, shadow_image
BuildLayers ==
    /\ pc = "layers"
    /\ LET border_width == block.border.width
       IN  IF ColorFails(block.background)
           THEN Fail("ColorParseError")
           ELSE IF overflow_checks
                   /\ (\/ AddOverflows(rect.left, border_width)
                       \/ SubOverflows(rect.right, border_width)
                       \/ AddOverflows(rect.top, border_width)
                       \/ SubOverflows(rect.bottom, border_width))
           THEN Fail("Panic")
           ELSE pc' = "shrink" /\ UNCHANGED result
    /\ UNCHANGED <<drawVars, colorPc, colorStr, colorRes, overflow_checks, todo, idx, block, rect, fit, events>>

\* rect.left += d.left; rect.right -= d.right; rect.top += d.top; rect.bottom -= d.bottom
Inset(r, d) ==
    [left |-> wrapping_add(r.left, d.left), right |-> wrapping_sub(r.right, d.right),
     top |-> wrapping_add(r.top, d.top), bottom |-> wrapping_sub(r.bottom, d.bottom)]

InsetOverflows(r, d) ==
    \/ AddOverflows(r.left, d.left) \/ SubOverflows(r.right, d.right)
    \/ AddOverflows(r.top, d.top) \/ SubOverflows(r.bottom, d.bottom)

BorderInset == Rect(block.border.width, block.border.width, block.border.width,
                    block.border.width)

\* the working rect is shrunk by the border width, then by the padding
Shrink ==
    /\ pc = "shrink"
    /\ LET r1 == IF block.border.present THEN Inset(rect, BorderInset) ELSE rect
           r2 == IF block.padding.present THEN Inset(r1, block.padding) ELSE r1
       IN  IF overflow_checks
              /\ (\/ block.border.present /\ InsetOverflows(rect, BorderInset)
                  \/ block.padding.present /\ InsetOverflows(r1, block.padding))
           THEN Fail("Panic") /\ UNCHANGED rect
           ELSE /\ rect' = r2
                /\ pc' = "fit"
                /\ UNCHANGED result
    /\ UNCHANGED <<drawVars, colorPc, colorStr, colorRes, overflow_checks, todo, idx, block, fit, events>>

\* let lines = fit_glyphs(&options.fonts, &rect, block)?;
\* if lines.is_empty() { continue; }
Fit ==
    /\ pc = "fit"
    /\ fit' = fit_glyphs(rect, block)
    /\ events' = Log("fit")
    /\ IF fit'.kind = "Err" THEN Fail(fit'.err)
       ELSE IF fit'.kind = "Panic" THEN Fail("Panic")
       ELSE /\ pc' = IF fit'.lines = <<>> THEN "loop" ELSE "rasterize"
            /\ UNCHANGED result
    /\ UNCHANGED <<drawVars, colorPc, colorStr, colorRes, overflow_checks, todo, idx, block, rect>>

\* `f as u32` for an f32 in sixths of a pixel: truncation, saturating at 0
F32AsU32(f) == IF f < 0 THEN 0 ELSE f \div 6

LastLine == Last(fit.lines)

\* lines_bottom, in sixths of a pixel
lines_bottom ==
    IF LastLine.glyphs = <<>> THEN U32AsF32(rect.bottom) ELSE Last(LastLine.glyphs).y

\* start_y: [panic, val]
start_y ==
    CASE block.v_align = "Top" -> [panic |-> FALSE, val |-> 0]
      [] block.v_align = "Center" ->
            IF fit.lines[1].glyphs = <<>> THEN [panic |-> TRUE, val |-> 0]
            ELSE LET first_glyph == fit.lines[1].glyphs[1]
                     rect_height == wrapping_sub(rect.bottom, rect.top)
                     lines_top == first_glyph.y - first_glyph.scale
                     half == F32AsU32((lines_bottom - lines_top - 6) \div 2)
                 IN  [panic |-> overflow_checks
                                /\ (\/ SubOverflows(rect.bottom, rect.top)
                                    \/ SubOverflows(rect_height \div 2, half)),
                      val |-> wrapping_sub(rect_height \div 2, half)]
      [] block.v_align = "Bottom" ->
            [panic |-> overflow_checks /\ SubOverflows(rect.bottom, F32AsU32(lines_bottom)),
             val |-> wrapping_sub(rect.bottom, F32AsU32(lines_bottom))]

\* the colour of every glyph's run: run.color, else block.color
GlyphColorFails ==
    \E n \in 1..Len(fit.lines) : \E g \in 1..Len(fit.lines[n].glyphs) :
        LET run == fit.lines[n].texts[fit.lines[n].glyphs[g].section_index + 1]
        IN  ~PixelTryFrom(IF run.color.kind # "None" THEN run.color ELSE block.color).ok

\* start_y and the loop over the glyphs of every line: each glyph is drawn
\* into text_image and, when the block has a shadow, into shadow_image
Rasterize ==
    /\ pc = "rasterize"
    /\ IF start_y.panic THEN Fail("Panic") /\ UNCHANGED events
       ELSE IF GlyphColorFails THEN Fail("ColorParseError") /\ UNCHANGED events
       ELSE /\ events' = Log("rasterize")
            /\ pc' = "shadow"
            /\ UNCHANGED result
    /\ UNCHANGED <<drawVars, colorPc, colorStr, colorRes, overflow_checks, todo, idx, block, rect, fit>>

\* the two overlays swapped: text_image first, the shadow on top of it
CompositeShadowAfterText ==
    /\ pc = "shadow"
    /\ events' = IF block.shadow.present
                 THEN Append(Log("text"), [block |-> idx, ev |-> "text_shadow"])
                 ELSE Log("text")
    /\ pc' = "loop"
    /\ block' = NoBlock
    /\ rect' = NoBlock.rect
    /\ fit' = NoFit
    /\ UNCHANGED <<drawVars, colorPc, colorStr, colorRes, overflow_checks, todo, idx, result>>

\* `if let Some((s, i)) = shadow_image`: blur, overlay(&mut bg, &i, 0, 0)
CompositeShadow ==
    /\ pc = "shadow"
    /\ events' = IF block.shadow.present THEN Log("text_shadow") ELSE events
    /\ pc' = "text"
    /\ UNCHANGED <<drawVars, colorPc, colorStr, colorRes, overflow_checks, todo, idx, block, rect, fit, result>>

\* overlay(&mut bg, &text_image, 0, 0), and on to the next block
CompositeText ==
    /\ pc = "text"
    /\ events' = Log("text")
    /\ pc' = "loop"
    \* the locals of the loop body go out of scope
    /\ block' = NoBlock
    /\ rect' = NoBlock.rect
    /\ fit' = NoFit
    /\ UNCHANGED <<drawVars, colorPc, colorStr, colorRes, overflow_checks, todo, idx, result>>

(***************************************************************************)
(* Glyph drawing: the layers of a block (text_image, shadow_image) and the *)
(* closure |x, y, c| that overlay_text hands to OutlinedGlyph::draw.  The  *)
(* library calls it once for every pixel of the glyph's bounding box with  *)
(* the coverage of that pixel.  A coverage is held in quarters (c = 2 is   *)
(* 0.5, c = 4 is 1.0), for which the f32 arithmetic of blend is exact.     *)
(***************************************************************************)

DEFAULT_SHADOW_COLOR == pixel(0, 0, 0, 25)
TRANSPARENT == pixel(0, 0, 0, 0)

\* fn blend(dest, src, src_alpha); `as u8` truncates
blend(dest, src, src_alpha) ==
    IF src_alpha >= 4 THEN src
    ELSE pixel((dest[1] * (4 - src_alpha) + src[1] * src_alpha) \div 4,
               (dest[2] * (4 - src_alpha) + src[2] * src_alpha) \div 4,
               (dest[3] * (4 - src_alpha) + src[3] * src_alpha) \div 4,
               (dest[4] * (4 - src_alpha) + src_alpha * 255) \div 4)

DrawWidth == 4
DrawHeight == 3
MaxDraws == 2

\* the pixels of the layers (width x height of the background image)
Canvas == (0..(DrawWidth - 1)) \X (0..(DrawHeight - 1))

\* ImageBuffer::in_bounds
in_bounds(x, y) == x < DrawWidth /\ y < DrawHeight

\* the rect of the drawn block: it passes the validation of overlay_text
DrawRect == Rect(0, 2, 0, 2)

\* the blocks whose glyphs are drawn: every colour parses
DrawBlocks ==
    { [shadow |-> s, background |-> b, border |-> bd, color |-> Red] :
      s \in {NoShadow, Shadow(1, 1, FALSE, NoColor), Shadow(2, 0, FALSE, Rgb(0, 255, 0))},
      b \in {NoColor, Rgba(255, 255, 255, 128)},
      bd \in {NoBorder, BlockBorder(1, Rgb(255, 255, 0), NoShadow)} }

\* Text.color of the run of a glyph
RunColors == {NoColor, Rgb(0, 0, 255)}

\* the coverages handed to the closure, in quarters
Coverages == {0, 1, 2, 4}

\* shadow_color: the shadow's colour, else DEFAULT_SHADOW_COLOR
shadow_color ==
    IF drawBlock.shadow.present /\ drawBlock.shadow.color.kind # "None"
    THEN PixelTryFrom(drawBlock.shadow.color).val
    ELSE DEFAULT_SHADOW_COLOR

border_pixel ==
    IF drawBlock.border.present THEN PixelTryFrom(drawBlock.border.color).val
    ELSE pixel(0, 0, 0, 255)

bg_pixel ==
    IF drawBlock.background.kind # "None" THEN PixelTryFrom(drawBlock.background).val
    ELSE pixel(0, 0, 0, 0)

\* RgbaImage::from_fn(width, height, |x, y| ..): outside the rect
\* transparent, on the border band the border colour, inside the background
NewTextImage ==
    LET border_width == drawBlock.border.width
        border_left == DrawRect.left + border_width
        border_right == DrawRect.right - border_width
        border_top == DrawRect.top + border_width
        border_bottom == DrawRect.bottom - border_width
    IN  [p \in Canvas |->
            LET x == p[1]
                y == p[2]
            IN  IF x < DrawRect.left \/ x > DrawRect.right
                   \/ y < DrawRect.top \/ y > DrawRect.bottom
                THEN TRANSPARENT
                ELSE IF x < border_left \/ x > border_right
                        \/ y < border_top \/ y > border_bottom
                THEN border_pixel
                ELSE bg_pixel]

\* RgbaImage::new(width, height)
NewShadowImage == [p \in Canvas |-> pixel(0, 0, 0, 0)]

NoDraw == [x |-> 0, y |-> 0, c |-> 0, color |-> TRANSPARENT, before |-> TRANSPARENT,
           written |-> TRANSPARENT, shadow |-> "none", shadow_x |-> 0, shadow_y |-> 0,
           shadow_pixel |-> TRANSPARENT]

DrawInit ==
    /\ drawPc = "layers"
    /\ drawBlock \in DrawBlocks
    /\ text_image = <<>>
    /\ shadow_image = <<>>
    /\ drawn = NoDraw
    /\ draws = MaxDraws

\* let mut text_image = ..; let mut shadow_image = block.shadow.map(..)
DrawLayers ==
    /\ drawPc = "layers"
    /\ text_image' = NewTextImage
    /\ shadow_image' = IF drawBlock.shadow.present THEN NewShadowImage ELSE <<>>
    /\ drawPc' = "draw"
    /\ UNCHANGED <<colorVars, overlayVars, drawBlock, drawn, draws>>

\* the pixel stamped into the shadow layer
ShadowStamp(color, c) ==
    IF c < 4 THEN [shadow_color EXCEPT ![4] = (@ * c) \div 4] ELSE color

\* one call of the closure: x, y are x_base + x and y_base + y
DrawPixel ==
    /\ drawPc = "draw"
    /\ draws > 0
    /\ \E x \in 0..DrawWidth, y \in 0..DrawHeight, c \in Coverages, rc \in RunColors :
        LET color == PixelTryFrom(IF rc.kind # "None" THEN rc ELSE drawBlock.color).val
            written == IF c < 4
                       THEN blend(bg_pixel, [color EXCEPT ![4] = (@ * c) \div 4], c)
                       ELSE color
            s == drawBlock.shadow
            shadow_x == x + s.x
            shadow_y == y + s.y
            call == [NoDraw EXCEPT !.x = x, !.y = y, !.c = c, !.color = color,
                                   !.written = written]
        IN  IF ~in_bounds(x, y)
            THEN \* put_pixel panics outside the image
                 /\ drawPc' = "panic"
                 /\ drawn' = [call EXCEPT !.shadow = "panic"]
                 /\ UNCHANGED <<text_image, shadow_image>>
            ELSE /\ text_image' = [text_image EXCEPT ![<<x, y>>] = written]
                 /\ drawPc' = "draw"
                 /\ IF shadow_image = <<>>
                    THEN /\ drawn' = [call EXCEPT !.before = text_image[<<x, y>>]]
                         /\ UNCHANGED shadow_image
                    ELSE IF in_bounds(shadow_x, shadow_y)
                    THEN /\ shadow_image' = [shadow_image EXCEPT
                                                ![<<shadow_x, shadow_y>>] = ShadowStamp(color, c)]
                         /\ drawn' = [call EXCEPT !.before = text_image[<<x, y>>],
                                                  !.shadow = "stamped",
                                                  !.shadow_x = shadow_x,
                                                  !.shadow_y = shadow_y,
                                                  !.shadow_pixel = ShadowStamp(color, c)]
                    ELSE /\ drawn' = [call EXCEPT !.before = text_image[<<x, y>>],
                                                  !.shadow = "skipped",
                                                  !.shadow_x = shadow_x,
                                                  !.shadow_y = shadow_y]
                         /\ UNCHANGED shadow_image
    /\ draws' = draws - 1
    /\ UNCHANGED <<colorVars, overlayVars, drawBlock>>

DrawIdle ==
    /\ drawPc = "idle"
    /\ drawBlock = <<>>
    /\ text_image = <<>>
    /\ shadow_image = <<>>
    /\ drawn = <<>>
    /\ draws = 0

ColorIdle ==
    /\ colorPc = "parsed"
    /\ colorStr = <<>>
    /\ colorRes = Err("none")

OverlayIdle ==
    /\ pc = "done"
    /\ overflow_checks = FALSE
    /\ todo = 0
    /\ idx = -1
    /\ block = <<>>
    /\ rect = <<>>
    /\ fit = <<>>
    /\ events = <<>>
    /\ result = "Ok"

Init == OverlayInit /\ ColorIdle /\ DrawIdle

Next ==
    \/ NextBlock \/ Return \/ Validate \/ ResolveColors \/ BorderShadow \/ BuildLayers
    \/ Shrink \/ Fit \/ Rasterize \/ CompositeShadow \/ CompositeText

\* overlay_text on a list of up to MaxBlocks blocks
Spec == Init /\ [][Next]_vars

InitColor == ColorInit /\ OverlayIdle /\ DrawIdle

NextColor == AppendChar \/ Convert

\* Pixel::try_from(&Color::RgbString(s)) on the strings over ColorBodyChars
SpecColor == InitColor /\ [][NextColor]_vars

InitDraw == DrawInit /\ ColorIdle /\ OverlayIdle

NextDraw == DrawLayers \/ DrawPixel

\* the layers of one block and up to MaxDraws calls of the drawing closure
SpecDraw == InitDraw /\ [][NextDraw]_vars

(***************************************************************************)
(* The fit criterion of the design (spec 4.2), stated on the layout, for   *)
(* the properties below                                                    *)
(***************************************************************************)

RECURSIVE CandidatesFrom(_, _)
CandidatesFrom(size, min_size) ==
    IF size < min_size THEN <<>> ELSE <<size>> \o CandidatesFrom(size - 4, min_size)

\* max_size, max_size - 4, ... down to min_size
Candidates(b) == CandidatesFrom(b.max_size, b.min_size)

FontsKnown(b) == \A k \in 1..Len(b.text) : FontPosition(b.text[k].font) # 0

\* no coordinate has wrapped around, left <= right and top <= bottom
RectInOrder(r) == 0 <= r.left /\ r.left <= r.right /\ 0 <= r.top /\ r.top <= r.bottom

CharCount(line) == SumSeq([k \in 1..Len(line) |-> Len(line[k].text)])

\* wrap: the glyphs end above the bottom of the rect and the last glyph placed
\* is the last character of the final run
WrapCriterion(b, r, size) ==
    LET glyphs == calculate_glyphs(TRUE, SectionGeometry(r), SectionsAt(b.text, size))
    IN  /\ b.text # <<>>
        /\ Last(b.text).text # <<>>
        /\ glyphs # <<>>
        /\ Last(glyphs).section_index = Len(b.text) - 1
        /\ Last(glyphs).byte_index = ByteIndex(Last(b.text).text, Len(Last(b.text).text))
        /\ Last(glyphs).y < U32AsF32(r.bottom)

\* no-wrap: line height * number of lines <= rect height in the first run's
\* font, and every line renders one glyph per source character
NoWrapCriterion(b, r, size) ==
    LET lines == NoWrapLines(b.text)
    IN  /\ b.text # <<>>
        /\ pt_size_to_px_scale(Fonts[FontPosition(b.text[1].font)], size) * Len(lines)
               <= U32AsF32(r.bottom - r.top)
        /\ \A n \in 1..Len(lines) :
               Len(calculate_glyphs(FALSE, SectionGeometry(r), SectionsAt(lines[n], size)))
                   = CharCount(lines[n])

Criterion(b, r, size) ==
    IF b.wrap THEN WrapCriterion(b, r, size) ELSE NoWrapCriterion(b, r, size)

FittingCandidates(b, r) == SelectSeq(Candidates(b), LAMBDA size : Criterion(b, r, size))

\* fit_glyphs has run on the current block with the working rect
FitDone == fit.kind # "None"

\* the fit criterion is defined: the fonts exist and the rect is not inverted
FitDefined == FitDone /\ FontsKnown(block) /\ RectInOrder(rect)

IsComposite(e) == e.ev \in {"border_shadow", "text_shadow", "text"}

EventsOf(i) == SelectSeq(events, LAMBDA e : e.block = i)
EvNames(i) == [k \in 1..Len(EventsOf(i)) |-> EventsOf(i)[k].ev]
Position(names, ev) ==
    IF \E k \in 1..Len(names) : names[k] = ev
    THEN CHOOSE k \in 1..Len(names) : names[k] = ev /\ \A j \in 1..(k - 1) : names[j] # ev
    ELSE 0

(***************************************************************************)
(* Properties                                                              *)
(***************************************************************************)

\* C1: a block with min_size <= max_size whose text fits at max_size is
\* fitted, and a size fit_glyphs settles on is max_size - 4k, k >= 0, within
\* [min_size, max_size].
C1_FitSucceedsWithinRange ==
    FitDone =>
        /\ (/\ FitDefined
            /\ block.min_size <= block.max_size
            /\ Criterion(block, rect, block.max_size)) => fit.kind = "Ok"
        /\ fit.kind = "Ok" =>
               /\ block.min_size <= fit.font_size
               /\ fit.font_size <= block.max_size
               /\ (block.max_size - fit.font_size) % 4 = 0

\* C2 as claimed: a GeometryError is returned before any pixel of the canvas
\* has been mutated, wherever in the block list the offending rect is.
C2_GeometryErrorBeforeAnyPixel ==
    result = "GeometryError" => \A k \in 1..Len(events) : ~IsComposite(events[k])

\* the rects C2 is about
RectRejected(r) ==
    \/ r.left > ImageWidth \/ r.right > ImageWidth
    \/ r.top > ImageHeight \/ r.bottom > ImageHeight
    \/ r.left >= r.right \/ r.top > r.bottom

\* C2 as amended: when overlay_text reaches a block whose rect has a side
\* beyond the image or has left >= right or top > bottom, it returns
\* GeometryError before any composite of that block or of a later one: the
\* canvas holds the composites of the earlier blocks only (none when the
\* block is the first).
C2_GeometryErrorBeforeOwnPixels ==
    /\ (idx >= 0 /\ pc # "validate" /\ block # NoBlock /\ RectRejected(block.rect))
           => result = "GeometryError"
    /\ result = "GeometryError" =>
           /\ RectRejected(block.rect)
           /\ \A k \in 1..Len(events) : IsComposite(events[k]) => events[k].block < idx

C2_Witness ==
    /\ result = "GeometryError"
    /\ idx = 1
    /\ \E k \in 1..Len(events) : IsComposite(events[k]) /\ events[k].block = 0

\* C3: blocks are processed in the caller's order, every composite of block i
\* before block j > i is validated or composited, and once a block has failed
\* nothing more is validated, laid out or composited.
C3_OrderedFailFast ==
    /\ [](\A p, q \in 1..Len(events) : p < q => events[p].block <= events[q].block)
    /\ [](\A i \in 0..idx : /\ i < idx => EventsOf(i) # <<>>
                            /\ EventsOf(i) # <<>> => EventsOf(i)[1].ev = "validate")
    /\ [][result \notin {"running", "Ok"} => events' = events /\ idx' = idx]_vars
    /\ [][result = "running" /\ result' \notin {"running", "Ok"} =>
              \A k \in 1..Len(events') : events'[k].block <= idx]_vars

C3_Witness ==
    /\ result = "FitError"
    /\ idx = 1
    /\ \E k \in 1..Len(events) : events[k].ev = "text" /\ events[k].block = 0

\* C4: when no candidate size satisfies the fit criterion, the outcome is the
\* FitError error value, never a panic and never a rendering.
C4_NoFitIsFitError ==
    (FitDefined /\ FittingCandidates(block, rect) = <<>>) =>
        /\ fit = FitErr("FitError")
        /\ result = "FitError"

\* C5: a run naming a font that is not in the catalog makes the block fail
\* with FontNotFound and with no other error, whatever its sizes and rect.
C5_MissingFontIsFontNotFound ==
    (FitDone /\ RectInOrder(rect) /\ ~FontsKnown(block)) =>
        /\ fit = FitErr("FontNotFound")
        /\ result = "FontNotFound"

\* the characters of s are hex digits
AllHex(s) == \A i \in 1..Len(s) : s[i] \in HexChars
StripHash(s) == IF s # <<>> /\ s[1] = "#" THEN Tail(s) ELSE s
HexByte(s, i) == 16 * HexVal(s[i]) + HexVal(s[i + 1])

\* C6: after one optional leading '#', 6 hex digits RRGGBB give
\* (RR, GG, BB, 255) and 8 hex digits RRGGBBAA give (RR, GG, BB, AA).
C6_HexStringToPixel ==
    colorPc = "parsed" =>
        LET hex == StripHash(colorStr)
        IN  /\ (Len(hex) = 6 /\ AllHex(hex)) =>
                   colorRes = Ok(<<HexByte(hex, 1), HexByte(hex, 3), HexByte(hex, 5), 255>>)
            /\ (Len(hex) = 8 /\ AllHex(hex)) =>
                   colorRes = Ok(<<HexByte(hex, 1), HexByte(hex, 3), HexByte(hex, 5),
                                   HexByte(hex, 7)>>)

\* C7: a string that, after one optional leading '#', is not 6 or 8
\* characters long or holds a character that is no hex digit (a sign
\* included) is a ColorParseError, never a pixel.
C7_MalformedColorIsError ==
    colorPc = "parsed" =>
        LET hex == StripHash(colorStr)
        IN  (Len(hex) \notin {6, 8} \/ ~AllHex(hex)) => colorRes = Err("ColorParseError")

\* C8: in wrap mode the size chosen is the first candidate at which the
\* glyphs end within the rect and the last glyph placed is the last character
\* of the final run; no such candidate is skipped, no other is chosen.
C8_WrapFirstFit ==
    (FitDefined /\ block.wrap) =>
        LET fitting == FittingCandidates(block, rect)
        IN  /\ fitting # <<>> => (fit.kind = "Ok" /\ fit.font_size = fitting[1])
            /\ fit.kind = "Ok" => (fitting # <<>> /\ fit.font_size = fitting[1])

\* C9: in no-wrap mode the size chosen is the first candidate at which
\* line height * lines <= rect height (equality accepted) and every line
\* renders one glyph per source character at that size.
C9_NoWrapFirstFit ==
    (FitDefined /\ ~block.wrap) =>
        LET fitting == FittingCandidates(block, rect)
        IN  /\ fitting # <<>> => (fit.kind = "Ok" /\ fit.font_size = fitting[1])
            /\ fit.kind = "Ok" => (fitting # <<>> /\ fit.font_size = fitting[1])

\* C10: within a block the border's shadow is composited first, then the
\* text shadow, then the decoration+text layer; the last two only after the
\* fit has succeeded and the glyphs have been rasterized.
C10_LayerOrder ==
    \A i \in 0..idx :
        LET names == EvNames(i)
            at(ev) == Position(names, ev)
        IN  /\ at("border_shadow") # 0 /\ at("text_shadow") # 0
                   => at("border_shadow") < at("text_shadow")
            /\ at("border_shadow") # 0 /\ at("text") # 0 => at("border_shadow") < at("text")
            /\ at("text_shadow") # 0 =>
                   /\ at("fit") # 0 /\ at("fit") < at("rasterize")
                   /\ at("rasterize") # 0 /\ at("rasterize") < at("text_shadow")
                   /\ (i = idx /\ block # NoBlock => fit.kind = "Ok" /\ block.shadow.present)
            /\ at("text") # 0 =>
                   /\ at("fit") # 0 /\ at("fit") < at("rasterize")
                   /\ at("rasterize") # 0 /\ at("rasterize") < at("text")
                   /\ at("text_shadow") < at("text")
                   /\ at("text") = Len(names)
            /\ (i = idx /\ pc = "text" /\ block.shadow.present) => at("text_shadow") # 0

C10_Witness ==
    /\ pc = "loop"
    /\ EvNames(idx) = <<"validate", "border_shadow", "fit", "rasterize", "text_shadow", "text">>

\* C13: for every block whose rect passed validation, the subtractions of the
\* border width (border_right, border_bottom, rect.right -= .., rect.bottom -= ..)
\* and of the padding never go below zero, and the rect handed to fit_glyphs
\* has left <= right and top <= bottom, so that right - left and bottom - top
\* do not wrap around.
C13_ShrinkKeepsRectOrdered ==
    /\ pc = "layers" /\ ~ColorFails(block.background) =>
           /\ ~SubOverflows(rect.right, block.border.width)
           /\ ~SubOverflows(rect.bottom, block.border.width)
    /\ pc = "shrink" =>
           LET r1 == IF block.border.present THEN Inset(rect, BorderInset) ELSE rect
           IN  /\ block.border.present =>
                      /\ ~SubOverflows(rect.right, block.border.width)
                      /\ ~SubOverflows(rect.bottom, block.border.width)
               /\ block.padding.present =>
                      /\ ~SubOverflows(r1.right, block.padding.right)
                      /\ ~SubOverflows(r1.bottom, block.padding.bottom)
    /\ pc = "fit" =>
           /\ ~ULt(rect.right, rect.left)
           /\ ~ULt(rect.bottom, rect.top)

\* C14: in the layout that fit_glyphs returns, every glyph has the pixel scale
\* of its own run's font at the chosen size, pt_size_to_px_scale(font, font_size),
\* which is the scale the fit check gave that run when it accepted the size.
C14_FinalPassUsesRunScale ==
    FitDone /\ fit.kind = "Ok" =>
        \A n \in 1..Len(fit.lines) : \A g \in 1..Len(fit.lines[n].glyphs) :
            LET glyph == fit.lines[n].glyphs[g]
            IN  glyph.scale = pt_size_to_px_scale(Fonts[glyph.font_id], fit.font_size)

\* the closure has been called and did not panic: drawn is its last call
HasDrawn == drawPc = "draw" /\ draws < MaxDraws

\* v is num / 4 rounded either way
Near(v, num) == num - 4 < 4 * v /\ 4 * v < num + 4

\* C11: the pixel that a glyph pixel of coverage c > 0 writes into the
\* decoration/text layer is the "over" blend of the run's effective colour
\* onto the value the layer held at that pixel just before the write
\* (dest*(1-c) + src*c on the red, green and blue channels, src itself at
\* full coverage), whatever that value was: background, border or an
\* earlier glyph.
C11_BlendOntoLayer ==
    HasDrawn /\ drawn.c > 0 =>
        /\ text_image[<<drawn.x, drawn.y>>] = drawn.written
        /\ drawn.c >= 4 => drawn.written = drawn.color
        /\ drawn.c < 4 =>
               \A i \in 1..3 :
                   Near(drawn.written[i],
                        drawn.before[i] * (4 - drawn.c) + drawn.color[i] * drawn.c)

\* C12: for a block with a shadow, a glyph pixel of coverage c > 0 at (x, y)
\* stamps the shadow layer at (x + s.x, y + s.y) exactly when that position is
\* on the canvas, and the stamped pixel has the red, green and blue of the
\* resolved shadow colour (the shadow's colour, else DEFAULT_SHADOW_COLOR), and
\* is that colour itself at full coverage.
C12_ShadowStampColour ==
    HasDrawn /\ drawBlock.shadow.present /\ drawn.c > 0 =>
        LET s == drawBlock.shadow
            on_canvas == <<drawn.x + s.x, drawn.y + s.y>> \in Canvas
        IN  /\ drawn.shadow = (IF on_canvas THEN "stamped" ELSE "skipped")
            /\ drawn.shadow = "stamped" =>
                   /\ drawn.shadow_x = drawn.x + s.x
                   /\ drawn.shadow_y = drawn.y + s.y
                   /\ shadow_image[<<drawn.shadow_x, drawn.shadow_y>>] = drawn.shadow_pixel
                   /\ \A i \in 1..3 : drawn.shadow_pixel[i] = shadow_color[i]
                   /\ drawn.c >= 4 => drawn.shadow_pixel = shadow_color

====
